---- MODULE Spec2Model ----
(***************************************************************************)
(* libbtrfsutil-rs: safe wrappers over the libbtrfsutil control channel.   *)
(* The module models                                                       *)
(*   - the Error domain                      (src/src/error.rs),           *)
(*   - the top-level operations              (src/src/lib.rs),             *)
(*   - the qgroup inheritance builder and the subvolume enumeration        *)
(*     protocol, whose files (qgroup.rs, subvol.rs) are described by the   *)
(*     specification only,                                                 *)
(* against a mock control channel holding a small subvolume tree.          *)
(***************************************************************************)
EXTENDS Integers, Sequences, FiniteSets, TLC

VARIABLES
    subvols,    \* channel side: paths that are subvolumes
    ro,         \* channel side: subvolumes flagged read-only
    qgroups,    \* QgroupInherit instances: handle -> [buf, owner]
    delivered,  \* handle -> number of channel requests that carried its pointer
    call,       \* the last invocation of a top-level operation (its arguments)
    req,        \* the request that invocation issued to the channel, or NoReq
    ret,        \* what that invocation returned to the caller
    errcode,    \* Error domain: the raw u32 under conversion
    error,      \* Error domain: the Error built from errcode
    code,       \* Error domain: the u32 converted back from error
    unknown,    \* Error domain: is_unknown(error)
    tree,       \* enumeration: the channel's subvolume tree (records in key order)
    it,         \* enumeration: the session (state, cursor, buffered records)
    yielded,    \* enumeration: what next() has handed to the caller, in order
    searches,   \* enumeration: cursors the search requests were issued from
    replies,    \* enumeration: the channel's replies, in order
    last,       \* enumeration: outcome of the last next() call
    drained     \* enumeration: outcome of the eager drain, or NotDrained

opVars   == <<subvols, ro, qgroups, delivered, call, req, ret>>
errVars  == <<errcode, error, code, unknown>>
enumVars == <<tree, it, yielded, searches, replies, last, drained>>
vars     == <<subvols, ro, qgroups, delivered, call, req, ret,
              errcode, error, code, unknown,
              tree, it, yielded, searches, replies, last, drained>>

----------------------------------------------------------------------------
(* Bounds of the model.                                                    *)

\* how many codes above FS_INFO_FAILED the channel may return
MaxUnknown == 3
\* how many QgroupInherit instances a run may create
MaxQgroups == 2

----------------------------------------------------------------------------
(* Error domain: error.rs.  The constants are the values of the            *)
(* btrfs_util_error enumeration, in its declaration order.                 *)

BTRFS_UTIL_OK == 0
STOP_ITERATION == 1
NO_MEMORY == 2
INVALID_ARGUMENT == 3
NOT_BTRFS == 4
NOT_SUBVOLUME == 5
SUBVOLUME_NOT_FOUND == 6
OPEN_FAILED == 7
RMDIR_FAILED == 8
UNLINK_FAILED == 9
STAT_FAILED == 10
STATFS_FAILED == 11
SEARCH_FAILED == 12
INO_LOOKUP_FAILED == 13
SUBVOL_GETFLAGS_FAILED == 14
SUBVOL_SETFLAGS_FAILED == 15
SUBVOL_CREATE_FAILED == 16
SNAP_CREATE_FAILED == 17
SNAP_DESTROY_FAILED == 18
DEFAULT_SUBVOL_FAILED == 19
SYNC_FAILED == 20
START_SYNC_FAILED == 21
WAIT_SYNC_FAILED == 22
GET_SUBVOL_INFO_FAILED == 23
GET_SUBVOL_ROOTREF_FAILED == 24
INO_LOOKUP_USER_FAILED == 25
FS_INFO_FAILED == 26

\* The raw codes of the model: every known code, the first MaxUnknown codes
\* above the highest known one, and a large one (a raw code is a u32 that
\* is compared and copied, never computed with; 2^31 - 1 stands for the far
\* end of its range).
ChanCodes == (0 .. (FS_INFO_FAILED + MaxUnknown)) \cup {2147483647}

\* impl From<u32> for Error: wraps the raw code
ErrorFrom(c) == [raw |-> c]

\* impl From<Error> for u32: unwraps it
U32From(e) == e.raw

\* Error::is_unknown
is_unknown_inclusive(e) == e.raw >= FS_INFO_FAILED

is_unknown(e) == e.raw > FS_INFO_FAILED

\* Error::new(errcode) as lib.rs calls it: the Error holding errcode
ErrorNew(c) == ErrorFrom(c)

Ok(v)  == [kind |-> "Ok", val |-> v]
Err(e) == [kind |-> "Err", err |-> e]
Unit   == "()"

----------------------------------------------------------------------------
(* Paths.  A path is the byte string of an OsStr; 97 = 'a', 98 = 'b',      *)
(* 47 = '/', 0 = the terminator.                                           *)

PathA   == <<97>>
PathAB  == <<97, 47, 98>>
PathNul == <<97, 0, 98>>
Paths   == {PathA, PathAB, PathNul}
NoPath  == <<>>

HasNul(bytes) == \E i \in 1 .. Len(bytes) : bytes[i] = 0

\* CString::new(bytes): Err(NulError) on an interior 0 byte, otherwise the
\* bytes with the terminator appended
CStringNewUnchecked(bytes) == [ok |-> TRUE, ptr |-> bytes \o <<0>>]

CStringNew(bytes) ==
    IF HasNul(bytes) THEN [ok |-> FALSE, ptr |-> <<>>]
    ELSE [ok |-> TRUE, ptr |-> bytes \o <<0>>]

\* What the channel reads through a `const char *`: the bytes before the
\* first terminator.
CStr(ptr) ==
    LET n == CHOOSE i \in 1 .. Len(ptr) :
                 ptr[i] = 0 /\ \A j \in 1 .. (i - 1) : ptr[j] # 0
    IN SubSeq(ptr, 1, n - 1)

----------------------------------------------------------------------------
(* Flag sets (bitflags!) and their bits().                                 *)

DELETE_RECURSIVE == 1
SNAPSHOT_RECURSIVE == 1
SNAPSHOT_READ_ONLY == 2

DeleteSubvolumeFlags == SUBSET {"RECURSIVE"}
CreateSubvolumeFlags == {{}}
CreateSnapshotFlags  == SUBSET {"READ_ONLY", "RECURSIVE"}

DeleteSubvolumeFlagsBitsDropped(flags) == 0

DeleteSubvolumeFlagsBits(flags) ==
    IF "RECURSIVE" \in flags THEN DELETE_RECURSIVE ELSE 0

CreateSubvolumeFlagsBits(flags) == 0

CreateSnapshotFlagsBits(flags) ==
    (IF "READ_ONLY" \in flags THEN SNAPSHOT_READ_ONLY ELSE 0)
    + (IF "RECURSIVE" \in flags THEN SNAPSHOT_RECURSIVE ELSE 0)

\* bit test on the channel side
HasBit(bits, b) == (bits \div b) % 2 = 1

----------------------------------------------------------------------------
(* The qgroup inheritance builder (qgroup.rs: described by the             *)
(* specification).  An instance owns its buffer; dropping it frees the     *)
(* buffer.  A handle is the instance's index in qgroups, and the pointer   *)
(* as_ptr returns is that handle.                                          *)

NullPtr == 0
None    == [some |-> FALSE, qg |-> NullPtr]
Some(h) == [some |-> TRUE, qg |-> h]

Owned(q) == {h \in 1 .. Len(q) : q[h].owner = "caller"}

QgroupInheritCreate == [buf |-> "live", owner |-> "caller"]

QgroupInheritAsPtr(q, h) == h

QgroupInheritDrop(q, h) == [q EXCEPT ![h].buf = "freed"]

\* Passing Option<QgroupInherit> by value: the caller's binding is moved
\* into the callee.
MoveArgBorrowed(q, qgroup) == q

MoveArg(q, qgroup) ==
    IF qgroup.some THEN [q EXCEPT ![qgroup.qg].owner = "moved"] ELSE q

\* Unwinding out of the callee drops the argument it owns.
DropArg(q, qgroup) ==
    IF qgroup.some THEN QgroupInheritDrop(q, qgroup.qg) ELSE q

\* `if let Some(qg) = qgroup { qg.as_ptr() } else { null_mut() }`:
\* qg is bound by value and goes out of scope at the end of its block.
IfLetAsPtr(q, qgroup) ==
    IF qgroup.some
    THEN [ptr |-> QgroupInheritAsPtr(q, qgroup.qg),
          qgroups |-> QgroupInheritDrop(q, qgroup.qg)]
    ELSE [ptr |-> NullPtr, qgroups |-> q]

PtrLive(q, ptr) == ptr = NullPtr \/ q[ptr].buf = "live"

Deliver(d, ptr) == IF ptr = NullPtr THEN d ELSE [d EXCEPT ![ptr] = @ + 1]

----------------------------------------------------------------------------
(* The control channel (libbtrfsutil, reached through ffi): a mock     *)
(* holding the subvolume tree.  A request is answered by the mock's own    *)
(* outcome, or by any non-OK code the channel may report instead.          *)

FS_TREE_OBJECTID == 5

Request(fn, ptr) ==
    [fn |-> fn, path |-> CStr(ptr), source |-> NoPath, id |-> 0,
     read_only |-> FALSE, flags |-> 0, qgroup |-> NullPtr, qgroupLive |-> TRUE,
     returned |-> FALSE, status |-> 0, fault |-> 0]

NoReq == [fn |-> "none"]

Nested(p, q) ==
    /\ Len(q) > Len(p) + 1
    /\ SubSeq(q, 1, Len(p)) = p
    /\ q[Len(p) + 1] = 47

Children(sv, p) == {q \in sv : Nested(p, q)}

SubvolId(p) ==
    CASE p = PathA  -> 256
      [] p = PathAB -> 257
      [] OTHER      -> FS_TREE_OBJECTID

\* the subvolume containing p: p itself, else its enclosing subvolume,
\* else the top-level tree
Containing(sv, p) ==
    IF p \in sv THEN p
    ELSE IF \E q \in sv : Nested(q, p) THEN CHOOSE q \in sv : Nested(q, p)
    ELSE NoPath

ParentOf(sv, p) ==
    IF \E q \in sv : Nested(q, p) THEN CHOOSE q \in sv : Nested(q, p) ELSE NoPath

InfoOf(sv, rd, p) ==
    [id |-> SubvolId(p),
     parent_id |-> IF p = NoPath THEN 0 ELSE SubvolId(ParentOf(sv, p)),
     flags |-> IF p \in rd THEN 1 ELSE 0]

Reply(status, sv, rd, out) ==
    [status |-> status, subvols |-> sv, ro |-> rd, out |-> out]

\* the mock's own outcome of request r on the tree (sv, rd)
ChannelMock(r, sv, rd) ==
    CASE r.fn = "sync" -> Reply(BTRFS_UTIL_OK, sv, rd, Unit)
      [] r.fn = "is_subvolume" ->
            Reply(IF r.path \in sv THEN BTRFS_UTIL_OK ELSE NOT_SUBVOLUME, sv, rd, Unit)
      [] r.fn = "subvolume_id" ->
            Reply(BTRFS_UTIL_OK, sv, rd, SubvolId(Containing(sv, r.path)))
      [] r.fn = "subvolume_info" ->
            LET p == IF r.id = 0 THEN Containing(sv, r.path)
                     ELSE IF \E q \in sv : SubvolId(q) = r.id
                          THEN CHOOSE q \in sv : SubvolId(q) = r.id
                          ELSE NoPath
            IN IF r.id # 0 /\ r.id # FS_TREE_OBJECTID /\ p = NoPath
               THEN Reply(SUBVOLUME_NOT_FOUND, sv, rd, Unit)
               ELSE Reply(BTRFS_UTIL_OK, sv, rd, InfoOf(sv, rd, p))
      [] r.fn = "get_subvolume_read_only" ->
            IF r.path \in sv THEN Reply(BTRFS_UTIL_OK, sv, rd, r.path \in rd)
            ELSE Reply(NOT_SUBVOLUME, sv, rd, Unit)
      [] r.fn = "set_subvolume_read_only" ->
            IF r.path \in sv
            THEN Reply(BTRFS_UTIL_OK, sv,
                       IF r.read_only THEN rd \cup {r.path} ELSE rd \ {r.path}, Unit)
            ELSE Reply(NOT_SUBVOLUME, sv, rd, Unit)
      [] r.fn = "delete_subvolume" ->
            IF r.path \notin sv THEN Reply(NOT_SUBVOLUME, sv, rd, Unit)
            ELSE IF Children(sv, r.path) # {} /\ ~HasBit(r.flags, DELETE_RECURSIVE)
            THEN Reply(SNAP_DESTROY_FAILED, sv, rd, Unit)
            ELSE LET gone == {r.path} \cup Children(sv, r.path)
                 IN Reply(BTRFS_UTIL_OK, sv \ gone, rd \ gone, Unit)
      [] r.fn = "create_subvolume" ->
            IF r.path \in sv THEN Reply(SUBVOL_CREATE_FAILED, sv, rd, Unit)
            ELSE Reply(BTRFS_UTIL_OK, sv \cup {r.path}, rd, Unit)
      [] r.fn = "create_snapshot" ->
            IF r.source \notin sv THEN Reply(NOT_SUBVOLUME, sv, rd, Unit)
            ELSE IF r.path \in sv THEN Reply(SNAP_CREATE_FAILED, sv, rd, Unit)
            ELSE Reply(BTRFS_UTIL_OK, sv \cup {r.path},
                       IF HasBit(r.flags, SNAPSHOT_READ_ONLY)
                       THEN rd \cup {r.path} ELSE rd, Unit)

\* the channel's answer: the mock's outcome, or the failure `fault`
Channel(r, fault) ==
    LET m == IF fault = BTRFS_UTIL_OK THEN ChannelMock(r, subvols, ro)
             ELSE Reply(fault, subvols, ro, Unit)
    IN [status |-> m.status, subvols |-> m.subvols, ro |-> m.ro,
        out |-> m.out, fault |-> fault]

\* an out-parameter: written by the channel on success, else left as it was
OutParam(init, reply) ==
    IF reply.status = BTRFS_UTIL_OK THEN reply.out ELSE init

\* SubvolumeInfo::new(): the empty record the channel fills in
SubvolumeInfoNew == [id |-> 0, parent_id |-> 0, flags |-> 0]

----------------------------------------------------------------------------
(* Top-level operations: lib.rs.  Each action is one call of the function  *)
(* of that name: the CString conversion (which panics on an interior 0     *)
(* byte), the single channel request, and the translation of its status.   *)

Panicked(theCall, q) ==
    /\ call' = theCall
    /\ req' = NoReq
    /\ ret' = [kind |-> "Panic"]
    /\ qgroups' = q
    /\ UNCHANGED <<subvols, ro, delivered>>

Returned(theCall, r, reply, result, q, d) ==
    /\ call' = theCall
    /\ req' = [r EXCEPT !.returned = TRUE, !.status = reply.status,
                         !.fault = reply.fault]
    /\ ret' = result
    /\ subvols' = reply.subvols
    /\ ro' = reply.ro
    /\ qgroups' = q
    /\ delivered' = d

\* the request read through a dangling pointer and the process died
Aborted(theCall, r, q, d) ==
    /\ call' = theCall
    /\ req' = r
    /\ ret' = [kind |-> "Abort"]
    /\ qgroups' = q
    /\ delivered' = d
    /\ UNCHANGED <<subvols, ro>>

sync_result(e) ==
    IF e = BTRFS_UTIL_OK THEN Ok(Unit) ELSE Err(ErrorNew(e))

sync(path) ==
    LET cpath == CStringNew(path)
        theCall == [op |-> "sync", paths |-> <<path>>]
    IN IF ~cpath.ok THEN Panicked(theCall, qgroups)
       ELSE \E fault \in ChanCodes :
              LET r == Request("sync", cpath.ptr)
                  reply == Channel(r, fault)
              IN Returned(theCall, r, reply, sync_result(reply.status),
                          qgroups, delivered)

is_subvolume_result_lenient(e) ==
    CASE e = BTRFS_UTIL_OK -> Ok(TRUE)
      [] e \in {NOT_SUBVOLUME, NOT_BTRFS, SUBVOLUME_NOT_FOUND} -> Ok(FALSE)
      [] OTHER -> Err(ErrorNew(e))

is_subvolume_result(e) ==
    CASE e = BTRFS_UTIL_OK -> Ok(TRUE)
      [] e \in {NOT_SUBVOLUME, NOT_BTRFS} -> Ok(FALSE)
      [] OTHER -> Err(ErrorNew(e))

is_subvolume(path) ==
    LET cpath == CStringNew(path)
        theCall == [op |-> "is_subvolume", paths |-> <<path>>]
    IN IF ~cpath.ok THEN Panicked(theCall, qgroups)
       ELSE \E fault \in ChanCodes :
              LET r == Request("is_subvolume", cpath.ptr)
                  reply == Channel(r, fault)
              IN Returned(theCall, r, reply, is_subvolume_result(reply.status),
                          qgroups, delivered)

subvolume_id_result_defaulting(e, out) == Ok(out)

subvolume_id_result(e, out) ==
    IF e = BTRFS_UTIL_OK THEN Ok(out) ELSE Err(ErrorNew(e))

subvolume_id(path) ==
    LET cpath == CStringNew(path)
        theCall == [op |-> "subvolume_id", paths |-> <<path>>]
    IN IF ~cpath.ok THEN Panicked(theCall, qgroups)
       ELSE \E fault \in ChanCodes :
              LET r == Request("subvolume_id", cpath.ptr)
                  reply == Channel(r, fault)
                  out == OutParam(0, reply)
              IN Returned(theCall, r, reply,
                          subvolume_id_result(reply.status, out),
                          qgroups, delivered)

subvolume_info_result(e, out) ==
    IF e # BTRFS_UTIL_OK THEN Err(ErrorNew(e)) ELSE Ok(out)

subvolume_info_with_id_body(op, path, id) ==
    LET cpath == CStringNew(path)
        theCall == [op |-> op, paths |-> <<path>>, id |-> id]
    IN IF ~cpath.ok THEN Panicked(theCall, qgroups)
       ELSE \E fault \in ChanCodes :
              LET r == [Request("subvolume_info", cpath.ptr) EXCEPT !.id = id]
                  reply == Channel(r, fault)
                  out == OutParam(SubvolumeInfoNew, reply)
              IN Returned(theCall, r, reply,
                          subvolume_info_result(reply.status, out),
                          qgroups, delivered)

subvolume_info_with_id(path, id) ==
    subvolume_info_with_id_body("subvolume_info_with_id", path, id)

subvolume_info(path) ==
    subvolume_info_with_id_body("subvolume_info", path, 0)

subvolume_read_only_result(e, out) ==
    IF e = BTRFS_UTIL_OK THEN Ok(out) ELSE Err(ErrorNew(e))

subvolume_read_only(path) ==
    LET cpath == CStringNew(path)
        theCall == [op |-> "subvolume_read_only", paths |-> <<path>>]
    IN IF ~cpath.ok THEN Panicked(theCall, qgroups)
       ELSE \E fault \in ChanCodes :
              LET r == Request("get_subvolume_read_only", cpath.ptr)
                  reply == Channel(r, fault)
                  out == OutParam(FALSE, reply)
              IN Returned(theCall, r, reply,
                          subvolume_read_only_result(reply.status, out),
                          qgroups, delivered)

set_subvolume_read_only_result(e) ==
    IF e = BTRFS_UTIL_OK THEN Ok(Unit) ELSE Err(ErrorNew(e))

set_subvolume_read_only(path, read_only) ==
    LET cpath == CStringNew(path)
        theCall == [op |-> "set_subvolume_read_only", paths |-> <<path>>,
                    read_only |-> read_only]
    IN IF ~cpath.ok THEN Panicked(theCall, qgroups)
       ELSE \E fault \in ChanCodes :
              LET r == [Request("set_subvolume_read_only", cpath.ptr)
                            EXCEPT !.read_only = read_only]
                  reply == Channel(r, fault)
              IN Returned(theCall, r, reply,
                          set_subvolume_read_only_result(reply.status),
                          qgroups, delivered)

delete_subvolume_result(e) ==
    IF e # BTRFS_UTIL_OK THEN Err(ErrorNew(e)) ELSE Ok(Unit)

delete_subvolume(path, flags) ==
    LET cpath == CStringNew(path)
        cflags == DeleteSubvolumeFlagsBits(flags)
        theCall == [op |-> "delete_subvolume", paths |-> <<path>>,
                    flags |-> flags,
                    nested |-> Children(subvols, path) # {},
                    exists |-> path \in subvols]
    IN IF ~cpath.ok THEN Panicked(theCall, qgroups)
       ELSE \E fault \in ChanCodes :
              LET r == [Request("delete_subvolume", cpath.ptr)
                            EXCEPT !.flags = cflags]
                  reply == Channel(r, fault)
              IN Returned(theCall, r, reply,
                          delete_subvolume_result(reply.status),
                          qgroups, delivered)

create_subvolume_result(e) ==
    IF e # BTRFS_UTIL_OK THEN Err(ErrorNew(e)) ELSE Ok(Unit)

create_snapshot_result(e) ==
    IF e # BTRFS_UTIL_OK THEN Err(ErrorNew(e)) ELSE Ok(Unit)

\* The creation request as the channel receives it, and its outcome.  A
\* request carrying a pointer to a freed buffer is undefined behaviour: the
\* process dies, or the channel reads whatever the memory holds and answers
\* with any status.
IssueCreate(theCall, r0, cq, d0) ==
    LET r == [r0 EXCEPT !.qgroup = cq.ptr,
                        !.qgroupLive = PtrLive(cq.qgroups, cq.ptr)]
        d == Deliver(d0, cq.ptr)
    IN \/ \E fault \in ChanCodes :
            LET reply == Channel(r, fault)
                result == IF theCall.op = "create_subvolume"
                          THEN create_subvolume_result(reply.status)
                          ELSE create_snapshot_result(reply.status)
            IN Returned(theCall, r, reply, result, cq.qgroups, d)
       \/ /\ ~r.qgroupLive
          /\ Aborted(theCall, r, cq.qgroups, d)

create_subvolume(path, flags, qgroup) ==
    LET cpath == CStringNew(path)
        theCall == [op |-> "create_subvolume", paths |-> <<path>>,
                    flags |-> flags, qgroup |-> qgroup]
        moved == MoveArg(qgroups, qgroup)
    IN IF ~cpath.ok THEN Panicked(theCall, DropArg(moved, qgroup))
       ELSE LET cflags == CreateSubvolumeFlagsBits(flags)
                cqgroup == IfLetAsPtr(moved, qgroup)
                r == [Request("create_subvolume", cpath.ptr)
                          EXCEPT !.flags = cflags]
            IN IssueCreate(theCall, r, cqgroup, delivered)

create_snapshot(source, path, flags, qgroup) ==
    LET csource == CStringNew(source)
        cpath == CStringNew(path)
        theCall == [op |-> "create_snapshot", paths |-> <<source, path>>,
                    flags |-> flags, qgroup |-> qgroup]
        moved == MoveArg(qgroups, qgroup)
    IN IF ~csource.ok \/ ~cpath.ok THEN Panicked(theCall, DropArg(moved, qgroup))
       ELSE LET cflags == CreateSnapshotFlagsBits(flags)
                cqgroup == IfLetAsPtr(moved, qgroup)
                r == [Request("create_snapshot", cpath.ptr)
                          EXCEPT !.source = CStr(csource.ptr), !.flags = cflags]
            IN IssueCreate(theCall, r, cqgroup, delivered)

\* QgroupInherit::new(): a fresh, empty instance owned by the caller
QgroupNew ==
    /\ Len(qgroups) < MaxQgroups
    /\ qgroups' = Append(qgroups, QgroupInheritCreate)
    /\ delivered' = Append(delivered, 0)
    /\ UNCHANGED <<subvols, ro, call, req, ret>>

Options(q) == {None} \cup {Some(h) : h \in Owned(q)}

SubvolIdArgs == {0, 256, 300}

----------------------------------------------------------------------------
(* Specification of the top-level operations.                              *)

NoCall == [op |-> "none", paths |-> <<>>]
NoRet  == [kind |-> "None"]

NotDrained == [kind |-> "None"]
NoSession == [state |-> "None"]

\* The variables of the other parts at rest.  A value not yet computed is
\* the empty sequence, a computed value v is <<v>>.
ErrIdle ==
    /\ errcode = 0 /\ error = <<>> /\ code = <<>> /\ unknown = <<>>

EnumIdle ==
    /\ tree = <<>> /\ it = NoSession /\ yielded = <<>> /\ searches = <<>>
    /\ replies = <<>> /\ last = NoRet /\ drained = NotDrained

OpsIdle ==
    /\ subvols = {} /\ ro = {} /\ qgroups = <<>> /\ delivered = <<>>
    /\ call = NoCall /\ req = NoReq /\ ret = NoRet

Init ==
    /\ subvols = {PathA, PathAB}
    /\ ro = {}
    /\ qgroups = <<>>
    /\ delivered = <<>>
    /\ call = NoCall
    /\ req = NoReq
    /\ ret = NoRet
    /\ ErrIdle
    /\ EnumIdle

\* The caller is between calls: the previous result has been taken.
Idle == ret = NoRet

\* The caller takes the result of the call it made.
TakeResult ==
    /\ ret # NoRet
    /\ call' = NoCall
    /\ req' = NoReq
    /\ ret' = NoRet
    /\ UNCHANGED <<subvols, ro, qgroups, delivered>>

Next ==
    \/ Idle /\ \E path \in Paths : sync(path) /\ UNCHANGED <<errVars, enumVars>>
    \/ Idle /\ \E path \in Paths : is_subvolume(path) /\ UNCHANGED <<errVars, enumVars>>
    \/ Idle /\ \E path \in Paths : subvolume_id(path) /\ UNCHANGED <<errVars, enumVars>>
    \/ Idle /\ \E path \in Paths, id \in SubvolIdArgs :
          subvolume_info_with_id(path, id) /\ UNCHANGED <<errVars, enumVars>>
    \/ Idle /\ \E path \in Paths : subvolume_info(path) /\ UNCHANGED <<errVars, enumVars>>
    \/ Idle /\ \E path \in Paths :
          subvolume_read_only(path) /\ UNCHANGED <<errVars, enumVars>>
    \/ Idle /\ \E path \in Paths, read_only \in BOOLEAN :
          set_subvolume_read_only(path, read_only)
          /\ UNCHANGED <<errVars, enumVars>>
    \/ Idle /\ \E path \in Paths, flags \in DeleteSubvolumeFlags :
          delete_subvolume(path, flags) /\ UNCHANGED <<errVars, enumVars>>
    \/ Idle /\ \E path \in Paths, flags \in CreateSubvolumeFlags,
          qgroup \in Options(qgroups) :
          create_subvolume(path, flags, qgroup)
          /\ UNCHANGED <<errVars, enumVars>>
    \/ Idle /\ \E source \in Paths, path \in Paths, flags \in CreateSnapshotFlags,
          qgroup \in Options(qgroups) :
          create_snapshot(source, path, flags, qgroup)
          /\ UNCHANGED <<errVars, enumVars>>
    \/ Idle /\ QgroupNew /\ UNCHANGED <<errVars, enumVars>>
    \/ TakeResult /\ UNCHANGED <<errVars, enumVars>>

Spec == Init /\ [][Next]_vars

----------------------------------------------------------------------------
(* Specification of the Error domain: a raw code is converted to an Error, *)
(* classified, and converted back.                                         *)

FromU32 ==
    /\ error = <<>>
    /\ error' = <<ErrorFrom(errcode)>>
    /\ UNCHANGED <<errcode, code, unknown>>

IntoU32 ==
    /\ error # <<>>
    /\ code = <<>>
    /\ code' = <<U32From(error[1])>>
    /\ UNCHANGED <<errcode, error, unknown>>

IsUnknown ==
    /\ error # <<>>
    /\ unknown = <<>>
    /\ unknown' = <<is_unknown(error[1])>>
    /\ UNCHANGED <<errcode, error, code>>

InitErr ==
    /\ errcode \in ChanCodes
    /\ error = <<>>
    /\ code = <<>>
    /\ unknown = <<>>
    /\ OpsIdle
    /\ EnumIdle

NextErr ==
    \/ FromU32 /\ UNCHANGED <<opVars, enumVars>>
    \/ IntoU32 /\ UNCHANGED <<opVars, enumVars>>
    \/ IsUnknown /\ UNCHANGED <<opVars, enumVars>>

SpecErr == InitErr /\ [][NextErr]_vars

----------------------------------------------------------------------------
(* Subvolume enumeration (subvol.rs: described by the specification).      *)
(* A session walks the channel's subvolume tree by successive search       *)
(* requests; next() hands out one record per call.                         *)

\* how many records the channel's tree may hold
MaxRecords == 4
\* how many records one reply may carry
BatchCapacity == 2

\* The k-th record of the tree.  Keys ascend with gaps; paths descend, so
\* key order is not path order.
TreeRecord(k) == [key |-> 3 * k - 1, id |-> 255 + k, path |-> <<123 - k>>]

Trees == {[k \in 1 .. n |-> TreeRecord(k)] : n \in 0 .. MaxRecords}

\* What the channel may do with one search request: fail with a status, or
\* return up to n of the records at or after the cursor.
SearchStatuses ==
    {BTRFS_UTIL_OK, STOP_ITERATION, SEARCH_FAILED, NO_MEMORY, FS_INFO_FAILED + 1}

Choices ==
    {c \in [status : SearchStatuses, n : 0 .. BatchCapacity] :
        c.status # BTRFS_UTIL_OK => c.n = 0}

Min(a, b) == IF a < b THEN a ELSE b

\* searchTree(path, cursor, batchCapacity) -> (records, status)
searchTree(t, cursor, choice) ==
    IF choice.status # BTRFS_UTIL_OK
    THEN [records |-> <<>>, status |-> choice.status]
    ELSE LET rest == SelectSeq(t, LAMBDA r : r.key >= cursor)
         IN [records |-> SubSeq(rest, 1, Min(choice.n, Len(rest))),
             status |-> BTRFS_UTIL_OK]

\* SubvolumePathRecord: the element type of the enumeration
PathRecord(r) == [id |-> r.id, path |-> r.path]

Item(r)    == [kind |-> "Item", val |-> PathRecord(r)]
ErrItem(e) == [kind |-> "Err", err |-> e]
End        == [kind |-> "End"]

NewSession == [state |-> "Created", cursor |-> 0, buf |-> <<>>]

Terminal(sess) == sess.state \in {"Exhausted", "Failed"}

\* the cursor after a non-empty reply: the key right after the last record
CursorAfter(records) == records[Len(records)].key + 1

\* whether a reply ends the sequence normally
IsExhaustionStopIsError(reply) ==
    reply.status = BTRFS_UTIL_OK /\ reply.records = <<>>

IsExhaustion(reply) ==
    \/ reply.status = STOP_ITERATION
    \/ reply.status = BTRFS_UTIL_OK /\ reply.records = <<>>

\* next() on a session that has ended: nothing further
TerminalNextResurface(w) ==
    IF w.it.state = "Failed"
    THEN [w EXCEPT !.yielded = Append(@, w.last),
                   !.last = IF w.last.kind = "Err" THEN w.last ELSE End]
    ELSE [w EXCEPT !.last = End]

TerminalNext(w) == [w EXCEPT !.last = End]

\* next(): w holds the session and what has been observed of it
EnumNext(w, t, choice) ==
    IF Terminal(w.it) THEN TerminalNext(w)
    ELSE IF w.it.buf # <<>>
    THEN [w EXCEPT !.it.buf = Tail(@),
                   !.yielded = Append(@, Item(Head(w.it.buf))),
                   !.last = Item(Head(w.it.buf))]
    ELSE LET reply == searchTree(t, w.it.cursor, choice)
             w1 == [w EXCEPT !.searches = Append(@, w.it.cursor),
                             !.replies = Append(@, reply)]
         IN IF IsExhaustion(reply)
            THEN [w1 EXCEPT !.it.state = "Exhausted", !.last = End]
            ELSE IF reply.status # BTRFS_UTIL_OK
            THEN [w1 EXCEPT !.it.state = "Failed",
                            !.yielded = Append(@, ErrItem(ErrorNew(reply.status))),
                            !.last = ErrItem(ErrorNew(reply.status))]
            ELSE [w1 EXCEPT !.it = [state |-> "Active",
                                    cursor |-> CursorAfter(reply.records),
                                    buf |-> Tail(reply.records)],
                            !.yielded = Append(@, Item(Head(reply.records))),
                            !.last = Item(Head(reply.records))]

World(sess) ==
    [it |-> sess, yielded |-> <<>>, searches |-> <<>>, replies |-> <<>>,
     last |-> NoRet]

\* the lazy pull form: one call of next()
Pull ==
    \E choice \in Choices :
        LET w == EnumNext([it |-> it, yielded |-> yielded, searches |-> searches,
                           replies |-> replies, last |-> last], tree, choice)
        IN /\ it' = w.it
           /\ yielded' = w.yielded
           /\ searches' = w.searches
           /\ replies' = w.replies
           /\ last' = w.last
           /\ UNCHANGED <<tree, drained>>

InitEnum ==
    /\ tree \in Trees
    /\ it = NewSession
    /\ yielded = <<>>
    /\ searches = <<>>
    /\ replies = <<>>
    /\ last = NoRet
    /\ drained = NotDrained
    /\ OpsIdle
    /\ ErrIdle

NextEnum == Pull /\ UNCHANGED <<opVars, errVars>>

SpecEnum == InitEnum /\ [][NextEnum]_vars

\* how many replies of the channel an eager drain's run fixes in advance
MaxReplies == 4

\* what the channel does once the fixed replies are used up: it returns
\* what is left, a full batch at a time
DefaultChoice == [status |-> BTRFS_UTIL_OK, n |-> BatchCapacity]

Scripts == [1 .. MaxReplies -> Choices]

\* the eager drain's outcome: the error, or the whole list
DrainResultPartial(w) ==
    LET items == SelectSeq(w.yielded, LAMBDA x : x.kind = "Item")
    IN Ok([i \in 1 .. Len(items) |-> items[i].val])

DrainResult(w) ==
    IF w.last.kind = "Err" THEN Err(w.last.err)
    ELSE Ok([i \in 1 .. Len(w.yielded) |-> w.yielded[i].val])

\* the eager drain's loop: next() until it reports the end or an error;
\* the channel answers the requests from script, in order
RECURSIVE DrainLoop(_, _, _)
DrainLoop(w, t, script) ==
    LET issues == ~Terminal(w.it) /\ w.it.buf = <<>>
        choice == IF script = <<>> THEN DefaultChoice ELSE Head(script)
        w2 == EnumNext(w, t, choice)
        rest == IF issues /\ script # <<>> THEN Tail(script) ELSE script
    IN IF w2.last.kind = "Item" THEN DrainLoop(w2, t, rest) ELSE w2

\* the eager drain of a fresh session
Drain ==
    /\ drained = NotDrained
    /\ \E script \in Scripts :
         LET w == DrainLoop(World(NewSession), tree, script)
         IN drained' = [kind |-> "Drained", result |-> DrainResult(w),
                        replies |-> w.replies, searches |-> w.searches]
    /\ UNCHANGED <<tree, it, yielded, searches, replies, last>>

InitDrain ==
    /\ tree \in Trees
    /\ it = NoSession
    /\ yielded = <<>>
    /\ searches = <<>>
    /\ replies = <<>>
    /\ last = NoRet
    /\ drained = NotDrained
    /\ OpsIdle
    /\ ErrIdle

NextDrain == Drain /\ UNCHANGED <<opVars, errVars>>

SpecDrain == InitDrain /\ [][NextDrain]_vars

----------------------------------------------------------------------------
(* Properties of the enumeration.                                          *)

RECURSIVE Flatten(_)
Flatten(rs) ==
    IF rs = <<>> THEN <<>> ELSE Head(rs).records \o Flatten(Tail(rs))

Items(recs) == [i \in 1 .. Len(recs) |-> Item(recs[i])]

Values(recs) == [i \in 1 .. Len(recs) |-> PathRecord(recs[i])]

ErrCount(ys) == Cardinality({i \in 1 .. Len(ys) : ys[i].kind = "Err"})

Failure(reply) == reply.status \notin {BTRFS_UTIL_OK, STOP_ITERATION}

IsPrefix(a, b) == Len(a) <= Len(b) /\ SubSeq(b, 1, Len(a)) = a

\* C5: in the lazy form, after batches and then a failure status the caller
\* has received every record of those batches and then that error once;
\* from then on next() reports the end, surfaces nothing more, issues no
\* request, and the session stays Failed.
FailedOnce ==
    it.state = "Failed" =>
        /\ Failure(replies[Len(replies)])
        /\ yielded = Items(Flatten(replies))
                       \o <<ErrItem([raw |-> replies[Len(replies)].status])>>
        /\ ErrCount(yielded) = 1

C6_DrainAllOrError ==
    drained # NotDrained =>
        LET rs == drained.replies
            final == rs[Len(rs)]
        IN /\ \A i \in 1 .. (Len(rs) - 1) :
                  rs[i].status = BTRFS_UTIL_OK /\ rs[i].records # <<>>
           /\ IF Failure(final)
              THEN drained.result = Err([raw |-> final.status])
              ELSE /\ IsExhaustion(final)
                   /\ drained.result = Ok(Values(Flatten(rs)))

C6_Witness ==
    /\ drained # NotDrained
    /\ Len(drained.replies) >= 2
    /\ drained.result = Err([raw |-> SEARCH_FAILED])

\* C7: a full drain yields the concatenation of the batches the channel
\* returned, in its order and each record once, and ends without an error
\* (STOP_ITERATION is never surfaced); each search request starts from a
\* later key than the one before, and none is issued after exhaustion.
InOrder ==
    /\ \A i \in 1 .. Len(searches), j \in 1 .. Len(searches) :
          i < j => searches[i] < searches[j]
    /\ IsPrefix(Flatten(replies), tree)
    /\ \A i \in 1 .. Len(yielded) :
          yielded[i].kind = "Err" => yielded[i].err.raw # STOP_ITERATION
    /\ it.state = "Exhausted" =>
          /\ yielded = Items(Flatten(replies))
          /\ IsExhaustion(replies[Len(replies)])

C7_OrderAndExhaustion ==
    /\ []InOrder
    /\ [][it.state = "Exhausted" =>
            /\ it' = it
            /\ yielded' = yielded
            /\ searches' = searches
            /\ last' = End]_vars

C7_Witness ==
    /\ it.state = "Exhausted"
    /\ Len(replies) >= 3
    /\ Len(yielded) >= 3
    /\ replies[Len(replies)].status = STOP_ITERATION
    /\ last = End

----------------------------------------------------------------------------
(* Properties of the top-level operations and of the Error domain.         *)

Answered == req.fn # "none" /\ req.returned

CreationOps == {"create_subvolume", "create_snapshot"}

PassThroughOps ==
    {"sync", "subvolume_id", "subvolume_info_with_id", "subvolume_info",
     "subvolume_read_only", "set_subvolume_read_only", "delete_subvolume",
     "create_subvolume", "create_snapshot"}

NulInCall(c) == \E i \in 1 .. Len(c.paths) : HasNul(c.paths[i])

\* C1: whatever status the channel returns to is_subvolume, OK gives
\* Ok(true), NOT_SUBVOLUME and NOT_BTRFS give Ok(false), and any other code
\* c gives Err carrying c; no other operation turns a non-OK status into
\* a success.
C1_IsSubvolumeStatus ==
    Answered =>
        IF call.op = "is_subvolume"
        THEN /\ req.status = BTRFS_UTIL_OK => ret = Ok(TRUE)
             /\ req.status \in {NOT_SUBVOLUME, NOT_BTRFS} => ret = Ok(FALSE)
             /\ req.status \notin {BTRFS_UTIL_OK, NOT_SUBVOLUME, NOT_BTRFS}
                    => ret = Err([raw |-> req.status])
        ELSE req.status # BTRFS_UTIL_OK => ret.kind # "Ok"

C1_Witness ==
    /\ call.op = "is_subvolume"
    /\ Answered
    /\ req.status = NOT_BTRFS
    /\ ret = Ok(FALSE)

\* C2: a creation request that carries a qgroup pointer reaches the channel
\* while the buffer it points to is still live.
C2_BufferLiveAtRequest ==
    (req.fn # "none" /\ req.qgroup # NullPtr) => req.qgroupLive

\* C3: each pass-through operation returns Ok exactly when the channel's
\* status is OK, and otherwise Err carrying exactly that status; a value it
\* returns is the one the channel produced, never a default on failure.
C3_StatusSurfaced ==
    (Answered /\ call.op \in PassThroughOps) =>
        /\ ret.kind = "Ok" <=> req.status = BTRFS_UTIL_OK
        /\ req.status # BTRFS_UTIL_OK => ret = Err([raw |-> req.status])
        /\ (ret.kind = "Ok" /\ call.op = "subvolume_id")
              => ret.val = SubvolId(Containing(subvols, req.path))
        /\ (ret.kind = "Ok" /\ call.op = "subvolume_read_only")
              => ret.val = (req.path \in ro)
        /\ (ret.kind = "Ok" /\ call.op = "subvolume_info")
              => ret.val = InfoOf(subvols, ro, Containing(subvols, req.path))

C3_Witness ==
    /\ call.op = "subvolume_id"
    /\ Answered
    /\ req.status = OPEN_FAILED
    /\ ret = Err([raw |-> OPEN_FAILED])

KnownCodes ==
    {BTRFS_UTIL_OK, STOP_ITERATION, NO_MEMORY, INVALID_ARGUMENT, NOT_BTRFS,
     NOT_SUBVOLUME, SUBVOLUME_NOT_FOUND, OPEN_FAILED, RMDIR_FAILED,
     UNLINK_FAILED, STAT_FAILED, STATFS_FAILED, SEARCH_FAILED,
     INO_LOOKUP_FAILED, SUBVOL_GETFLAGS_FAILED, SUBVOL_SETFLAGS_FAILED,
     SUBVOL_CREATE_FAILED, SNAP_CREATE_FAILED, SNAP_DESTROY_FAILED,
     DEFAULT_SUBVOL_FAILED, SYNC_FAILED, START_SYNC_FAILED, WAIT_SYNC_FAILED,
     GET_SUBVOL_INFO_FAILED, GET_SUBVOL_ROOTREF_FAILED, INO_LOOKUP_USER_FAILED,
     FS_INFO_FAILED}

HighestKnown == CHOOSE k \in KnownCodes : \A j \in KnownCodes : j <= k

\* C4: building an Error from a raw code always succeeds and loses nothing
\* (converting back gives the raw code), and is_unknown is false for every
\* code up to the highest known constant, FS_INFO_FAILED, and true above it.
C4_ErrorConversion ==
    /\ error = <<>> => ENABLED FromU32
    /\ code # <<>> => code[1] = errcode
    /\ HighestKnown = FS_INFO_FAILED
    /\ unknown # <<>> => (unknown[1] <=> errcode > HighestKnown)
    /\ (unknown # <<>> /\ errcode \in {BTRFS_UTIL_OK, STOP_ITERATION})
          => unknown[1] = FALSE

C4_Witness ==
    /\ errcode = FS_INFO_FAILED
    /\ code = <<FS_INFO_FAILED>>
    /\ unknown = <<FALSE>>

\* C8: a QgroupInherit handed to a creation operation is consumed by it:
\* its buffer is delivered to the channel by at most one request, and the
\* caller no longer owns it after the call, however the call ended.
C8_QgroupConsumed ==
    /\ \A h \in 1 .. Len(delivered) : delivered[h] <= 1
    /\ (call.op \in CreationOps /\ call.qgroup.some)
          => call.qgroup.qg \notin Owned(qgroups)

C8_Witness ==
    /\ call.op \in CreationOps
    /\ call.qgroup.some
    /\ ret.kind = "Err"
    /\ delivered[call.qgroup.qg] = 1

\* C9: an operation called with a path that holds an interior terminator
\* byte (either path of create_snapshot) issues no channel request and
\* leaves the subvolume tree as it was.
C9_NulRejected ==
    [][(call'.op # "none" /\ NulInCall(call'))
          => (req' = NoReq /\ subvols' = subvols /\ ro' = ro)]_vars

C9_Witness ==
    /\ call.op = "create_snapshot"
    /\ ~HasNul(call.paths[1])
    /\ HasNul(call.paths[2])
    /\ req = NoReq
    /\ ret.kind = "Panic"

\* C10: delete_subvolume hands the caller's flags to the channel as they
\* are: the RECURSIVE bit is set in the request exactly when the caller set
\* it; on a path with nested subvolumes the call without RECURSIVE fails
\* with the channel's code, and the call with RECURSIVE succeeds when the
\* channel accepts it.
C10_DeleteFlags ==
    (Answered /\ call.op = "delete_subvolume") =>
        /\ HasBit(req.flags, DELETE_RECURSIVE) <=> "RECURSIVE" \in call.flags
        /\ req.flags \in {0, DELETE_RECURSIVE}
        /\ (call.exists /\ call.nested /\ "RECURSIVE" \notin call.flags)
              => /\ req.status # BTRFS_UTIL_OK
                 /\ ret = Err([raw |-> req.status])
        /\ (call.exists /\ call.nested /\ "RECURSIVE" \in call.flags
              /\ req.fault = BTRFS_UTIL_OK)
              => /\ ret = Ok(Unit)
                 /\ req.path \notin subvols

C10_Witness ==
    /\ call.op = "delete_subvolume"
    /\ Answered
    /\ call.nested
    /\ "RECURSIVE" \in call.flags
    /\ ret = Ok(Unit)
    /\ subvols = {}

====
